---- MODULE Spec2Model ----
(***************************************************************************)
(* gic: the commit-message workflow (internal/commit), the MCP tools       *)
(* (internal/mcp), the repository inspector (internal/git) and the stored  *)
(* token (internal/auth).                                                  *)
(*                                                                         *)
(* Text is kept as a sequence of segments.  A segment is either a piece    *)
(* the program writes itself (the summary header, one summary line, the    *)
(* "Detailed Diffs" header, the excluded-files note) or a blob: text that  *)
(* comes from outside (git output, the user's hint), of which the program  *)
(* only ever uses the length, whether it contains the literal              *)
(* "Changed Files Summary:" and whether it is all whitespace.              *)
(***************************************************************************)
EXTENDS Integers, Sequences, FiniteSets, TLC

VARIABLES
    op,         \* the entry point that is running
    pc,         \* its position
    repo,       \* what the git commands print in this run (the environment)
    auth,       \* the token, the token file, the clock and the token endpoint
    staging,    \* the outcome of git.Add("."): "none" before it, "ok" or "failed"
    userInput,  \* the user's hint (a blob)
    status,     \* Run's local: output of git.Status
    diff,       \* Run's local: output of git.Diff
    log,        \* Run's local: output of git.Log
    fileStats,  \* Run's local: output of git.DiffStat
    errs,       \* Run's local: the shared error list
    finished,   \* the fetch tasks that have called wg.Done
    budget,     \* the budget argument of the last buildSmartDiff call
    smart,      \* the locals and the result of the last buildSmartDiff call
    prompt,     \* the prompt handed to client.Ask
    message,    \* the commit message: the tool's input.Message, then commitMsg
    asked,      \* number of client.Ask calls
    proceed,    \* Run's local: the answer of tap.Confirm ("none" before it)
    commits,    \* number of git.Commit calls that succeeded
    result,     \* what the entry point returned
    wg,         \* Run's local wg and the four goroutines it waits for
    mu          \* Run's local mu: "free" or the goroutine that holds it

vars == <<op, pc, repo, auth, staging, userInput, status, diff, log, fileStats, errs, finished,
          budget, smart, prompt, message, asked, proceed, commits, result, wg, mu>>

-----------------------------------------------------------------------------
(* Program constants *)

maxPromptChars == 500000
promptOverhead == 2000
\* (stat.Added + stat.Removed) * 5
perLineEstimate == 5
\* len("Changed Files Summary:\n")
HeaderChars == 23
\* len("  : + - lines\n"), the fixed part of "  %s: +%d -%d lines\n"
LineFixedChars == 14
\* len("Detailed Diffs (selected files):\n\n")
DetailChars == 34
\* len("\n[Note: Diffs excluded for  large files: ]\n"), the fixed part of the note
NoteFixedChars == 43
\* len("\n(Note: Due to large changeset, ... full picture.)\n")
ContextNoteChars == 115
\* the prompt template without its five %s
TemplateChars == 666
\* the user-input section without its %s
UserInputFixedChars == 23

-----------------------------------------------------------------------------
(* Bounds of the model *)

MaxAdded == 1
MaxRemoved == 1
MaxBudgetK == 12
MaxStat == 1
MaxLines == 2
MaxTick == 1

-----------------------------------------------------------------------------
(* Text *)

Range(s) == {s[i] : i \in 1..Len(s)}

\* position of a value in a sequence without repetitions
PosIn(s, x) == CHOOSE i \in 1..Len(s) : s[i] = x

Blob(n, hdr, blank) == [k |-> "blob", n |-> n, hdr |-> hdr, blank |-> blank]

RECURSIVE Digits(_)
\* number of characters %d prints for a non-negative int
Digits(x) == IF x < 10 THEN 1 ELSE 1 + Digits(x \div 10)

RECURSIVE JoinLen(_)
\* len(strings.Join(paths, ", "))
JoinLen(paths) ==
    IF paths = <<>> THEN 0
    ELSE IF Len(paths) = 1 THEN Len(paths[1])
    ELSE Len(paths[1]) + 2 + JoinLen(Tail(paths))

SegLen(s) ==
    CASE s.k = "blob"   -> s.n
      [] s.k = "hdr"    -> HeaderChars
      [] s.k = "line"   -> LineFixedChars + Len(s.path) + Digits(s.added) + Digits(s.removed)
      [] s.k = "nl"     -> 1
      [] s.k = "detail" -> DetailChars
      [] s.k = "note"   -> NoteFixedChars + Digits(s.count) + JoinLen(s.paths)

RECURSIVE TextLen(_)
\* len(text)
TextLen(t) == IF t = <<>> THEN 0 ELSE SegLen(t[1]) + TextLen(Tail(t))

\* strings.Contains(text, "Changed Files Summary:")
ContainsHeader(t) ==
    \E i \in 1..Len(t) : t[i].k = "hdr" \/ (t[i].k = "blob" /\ t[i].hdr)

\* strings.TrimSpace(text) == ""
TrimSpaceEmpty(t) ==
    \A i \in 1..Len(t) : t[i].k = "nl" \/ (t[i].k = "blob" /\ t[i].blank)

-----------------------------------------------------------------------------
(* buildSmartDiff *)

Churn(stat) == stat.Added + stat.Removed

\* mutant: the factor applied to the removed lines only
EstimatedSizeSlip(stat) == stat.Added + stat.Removed * perLineEstimate


EstimatedSize(stat) == (stat.Added + stat.Removed) * perLineEstimate

SummaryLine(stat) ==
    [k |-> "line", path |-> stat.Path, added |-> stat.Added, removed |-> stat.Removed]

\* mutant: the summary leaves out the files without changed lines
SummaryBlockNonZero(stats) ==
    <<[k |-> "hdr"]>>
        \o [i \in 1..Len(SelectSeq(stats, LAMBDA f : f.Added + f.Removed > 0)) |->
               SummaryLine(SelectSeq(stats, LAMBDA f : f.Added + f.Removed > 0)[i])]
        \o <<[k |-> "nl"]>>

\* the header, one line per file in the order of fileStats, an empty line
SummaryBlock(stats) ==
    <<[k |-> "hdr"]>> \o [i \in 1..Len(stats) |-> SummaryLine(stats[i])] \o <<[k |-> "nl"]>>

Swap(s, i, j) == [s EXCEPT ![i] = s[j], ![j] = s[i]]

RECURSIVE InsertGreater(_, _)
\* mutant: the element moves left while it is strictly greater
InsertGreater(s, j) ==
    IF j > 1 /\ Churn(s[j]) > Churn(s[j - 1])
    THEN InsertGreater(Swap(s, j, j - 1), j - 1)
    ELSE s

RECURSIVE InsertLess(_, _)
\* one pass of the insertion sort: the element at j moves left while it is
\* strictly less than its left neighbour
InsertLess(s, j) ==
    IF j > 1 /\ Churn(s[j]) < Churn(s[j - 1])
    THEN InsertLess(Swap(s, j, j - 1), j - 1)
    ELSE s

RECURSIVE InsertionSort(_, _)
InsertionSort(s, i) ==
    IF i > Len(s) THEN s ELSE InsertionSort(InsertLess(s, i), i + 1)

\* mutant: the comparison reversed, largest first
SortSliceDescending(stats) ==
    [i \in 1..Len(stats) |-> InsertionSort(stats, 2)[Len(stats) + 1 - i]]

\* sort.Slice(sorted, less) of the CLI: for the slice lengths of this model
\* (at most 12 elements) the library sorts by insertion
SortSlice(stats) == InsertionSort(stats, 2)

RECURSIVE ExchangeInnerLess(_, _, _)
\* mutant: the comparison of the inner loop reversed
ExchangeInnerLess(s, i, j) ==
    IF j > Len(s) THEN s
    ELSE ExchangeInnerLess(IF Churn(s[i]) < Churn(s[j]) THEN Swap(s, i, j) ELSE s, i, j + 1)

RECURSIVE ExchangeInner(_, _, _)
\* for j := i + 1; j < len(sorted); j++ { if sorted[i] > sorted[j] { swap } }
ExchangeInner(s, i, j) ==
    IF j > Len(s) THEN s
    ELSE ExchangeInner(IF Churn(s[i]) > Churn(s[j]) THEN Swap(s, i, j) ELSE s, i, j + 1)

RECURSIVE ExchangeOuter(_, _)
\* for i := 0; i < len(sorted)-1; i++ { ... }
ExchangeOuter(s, i) ==
    IF i >= Len(s) THEN s ELSE ExchangeOuter(ExchangeInner(s, i, i + 1), i + 1)

\* mutant: the copy is never sorted
SortExchangeSkipped(stats) == stats

\* the hand-written sort of the MCP server
SortExchange(stats) == ExchangeOuter(stats, 1)

\* mutant: the summary is not charged to the budget
InitialUsedZero(summarySize) == 0

\* usedBudget := summarySize
InitialUsed(summarySize) == summarySize

\* mutant: the test made before the file's size is added
OverBudgetBefore(used, stat, b) == used > b

\* if usedBudget+estimatedSize > budget { excluded; continue }
OverBudget(used, stat, b) == used + EstimatedSize(stat) > b

RECURSIVE Walk(_, _, _, _)
\* the selection loop over the sorted files; acc carries selectedPaths,
\* excludedPaths, usedBudget and, for every file tried, usedBudget after it
Walk(sorted, i, b, acc) ==
    IF i > Len(sorted) THEN acc
    ELSE IF OverBudget(acc.usedBudget, sorted[i], b)
         THEN Walk(sorted, i + 1, b,
                   [acc EXCEPT !.excludedPaths = Append(@, sorted[i].Path),
                               !.running = Append(@, acc.usedBudget)])
         ELSE Walk(sorted, i + 1, b,
                   [acc EXCEPT !.selectedPaths = Append(@, sorted[i].Path),
                               !.usedBudget = @ + EstimatedSize(sorted[i]),
                               !.running = Append(@, acc.usedBudget + EstimatedSize(sorted[i]))])

\* mutant: the note is written only for two or more excluded files
ExcludedNoteSeveral(excludedPaths) ==
    IF Len(excludedPaths) > 1
    THEN <<[k |-> "note", count |-> Len(excludedPaths), paths |-> excludedPaths]>>
    ELSE <<>>

\* "\n[Note: Diffs excluded for %d large files: %s]\n", only if some file is excluded
ExcludedNote(excludedPaths) ==
    IF Len(excludedPaths) > 0
    THEN <<[k |-> "note", count |-> Len(excludedPaths), paths |-> excludedPaths]>>
    ELSE <<>>

\* the "Detailed Diffs" header and the selected files' diff, only if some file
\* is selected; the fetched text is dropped when git.DiffFiles fails
DetailedDiffs(selectedPaths, fetch) ==
    IF Len(selectedPaths) > 0
    THEN <<[k |-> "detail"]>> \o (IF fetch.err THEN <<>> ELSE fetch.text)
    ELSE <<>>

\* The body shared by the two copies of buildSmartDiff; sorted is the copy's
\* ranking of fileStats, fetch what git.DiffFiles(selectedPaths) returns.
SmartDiffOf(stats, fullDiff, b, sorted, fetch) ==
    IF Len(stats) = 0
    THEN [text |-> fullDiff, summary |-> <<>>, summarySize |-> 0, sorted |-> <<>>,
          selectedPaths |-> <<>>, excludedPaths |-> <<>>, usedBudget |-> 0,
          running |-> <<>>, fetched |-> FALSE, fetchFailed |-> FALSE, early |-> TRUE]
    ELSE LET summary == SummaryBlock(stats)
             size    == TextLen(summary)
             w       == Walk(sorted, 1, b,
                             [selectedPaths |-> <<>>, excludedPaths |-> <<>>,
                              usedBudget |-> InitialUsed(size), running |-> <<>>])
         IN  [text |-> summary \o DetailedDiffs(w.selectedPaths, fetch)
                               \o ExcludedNote(w.excludedPaths),
              summary |-> summary, summarySize |-> size, sorted |-> sorted,
              selectedPaths |-> w.selectedPaths, excludedPaths |-> w.excludedPaths,
              usedBudget |-> w.usedBudget, running |-> w.running,
              fetched |-> Len(w.selectedPaths) > 0,
              fetchFailed |-> Len(w.selectedPaths) > 0 /\ fetch.err, early |-> FALSE]

\* internal/commit: buildSmartDiff
buildSmartDiff(stats, fullDiff, b, fetch) ==
    SmartDiffOf(stats, fullDiff, b, SortSlice(stats), fetch)

\* internal/mcp: buildSmartDiff
mcpBuildSmartDiff(stats, fullDiff, b, fetch) ==
    SmartDiffOf(stats, fullDiff, b, SortExchange(stats), fetch)

NoSmart == [text |-> <<>>, summary |-> <<>>, summarySize |-> 0, sorted |-> <<>>,
            selectedPaths |-> <<>>, excludedPaths |-> <<>>, usedBudget |-> 0,
            running |-> <<>>, fetched |-> FALSE, fetchFailed |-> FALSE, early |-> FALSE]

-----------------------------------------------------------------------------
(* git.DiffStat *)

\* A line of "git diff --numstat" is kept as what strings.Fields makes of it:
\* the two count fields and the words of the path (a path with a space in it,
\* or a rename "old => new", is several words).
Num(n) == [digits |-> TRUE, v |-> n]
\* the "-" printed for a binary file
Dash == [digits |-> FALSE, v |-> 0]

\* strconv.Atoi with its error dropped: 0 for a field that is not a number
Atoi(f) == IF f.digits THEN f.v ELSE 0

\* len(strings.Fields(line))
FieldCount(line) == 2 + Len(line.words)

\* the body of parseNumstat's loop for a line of three or more fields:
\* path := parts[2]; add to the existing entry or make a new one
MergeEntry(m, line) ==
    LET path == line.words[1]
    IN  [q \in DOMAIN m \cup {path} |->
            IF q # path THEN m[q]
            ELSE IF path \in DOMAIN m
                 THEN [Path |-> path,
                       Added |-> m[path].Added + Atoi(line.added),
                       Removed |-> m[path].Removed + Atoi(line.removed)]
                 ELSE [Path |-> path,
                       Added |-> Atoi(line.added),
                       Removed |-> Atoi(line.removed)]]

RECURSIVE parseNumstat(_, _, _)
\* parseNumstat(output) on statsMap m; lines with fewer than three fields
\* (the empty line of an empty output) are skipped
parseNumstat(m, lines, i) ==
    IF i > Len(lines) THEN m
    ELSE IF FieldCount(lines[i]) < 3
         THEN parseNumstat(m, lines, i + 1)
         ELSE parseNumstat(MergeEntry(m, lines[i]), lines, i + 1)

\* statsMap after parseNumstat(stagedOutput); parseNumstat(unstagedOutput)
StatsMap(stagedOutput, unstagedOutput) ==
    parseNumstat(parseNumstat(<<>>, stagedOutput, 1), unstagedOutput, 1)

\* "for _, stat := range statsMap": the slices a map iteration can build,
\* one entry per key in any order
DiffStatResults(stagedOutput, unstagedOutput) ==
    LET m == StatsMap(stagedOutput, unstagedOutput)
        n == Cardinality(DOMAIN m)
    IN  {s \in [1..n -> {m[q] : q \in DOMAIN m}] :
            \A i, j \in 1..n : i # j => s[i] # s[j]}

-----------------------------------------------------------------------------
(* internal/auth: the stored token *)

\* IsValid's one minute buffer
ExpiryBuffer == 60

\* a Go string: its text and whether it is valid UTF-8
Str(v) == [v |-> v, utf8 |-> TRUE]

Token(access, refresh, expiresIn, expiresAt) ==
    [AccessToken |-> access, RefreshToken |-> refresh,
     ExpiresIn |-> expiresIn, ExpiresAt |-> expiresAt]

\* the zero value of Token
ZeroToken == Token(Str(""), Str(""), 0, 0)

\* a string as encoding/json writes it: invalid UTF-8 is replaced
JSONString(x) == IF x.utf8 THEN x ELSE Str("\\ufffd")

\* mutant: the expires_at field is not written
MarshalNoExpiry(t) ==
    [k \in {"access_token", "refresh_token", "expires_in"} |->
        CASE k = "access_token"  -> JSONString(t.AccessToken)
          [] k = "refresh_token" -> JSONString(t.RefreshToken)
          [] k = "expires_in"    -> t.ExpiresIn]

\* json.MarshalIndent(token): the object with the keys of the json tags
Marshal(t) ==
    [k \in {"access_token", "refresh_token", "expires_in", "expires_at"} |->
        CASE k = "access_token"  -> JSONString(t.AccessToken)
          [] k = "refresh_token" -> JSONString(t.RefreshToken)
          [] k = "expires_in"    -> t.ExpiresIn
          [] k = "expires_at"    -> t.ExpiresAt]

\* json.Unmarshal(data, &token) of an object: a key that is absent leaves the
\* zero value
Unmarshal(doc) ==
    Token(IF "access_token" \in DOMAIN doc THEN doc["access_token"] ELSE Str(""),
          IF "refresh_token" \in DOMAIN doc THEN doc["refresh_token"] ELSE Str(""),
          IF "expires_in" \in DOMAIN doc THEN doc["expires_in"] ELSE 0,
          IF "expires_at" \in DOMAIN doc THEN doc["expires_at"] ELSE 0)

\* the nil *Token
NilToken == [nil |-> TRUE]

\* a file or a response body: absent, not JSON, or a JSON object
NoFile == [kind |-> "missing", doc |-> <<>>]
Garbage == [kind |-> "garbage", doc |-> <<>>]
JSONFile(doc) == [kind |-> "json", doc |-> doc]

\* auth.Load(path)
Load(file) ==
    CASE file.kind = "missing" -> [token |-> NilToken, err |-> ""]
      [] file.kind = "garbage" -> [token |-> NilToken, err |-> "invalid character"]
      [] file.kind = "json"    -> [token |-> Unmarshal(file.doc), err |-> ""]

\* t.IsValid(): time.Now().Unix() < t.ExpiresAt-60
IsValid(t, now) == now < t.ExpiresAt - ExpiryBuffer

\* auth.Refresh(token, clientID, tokenURL) on the answer of the token endpoint
Refresh(answer, now) ==
    IF answer.err # "" THEN [token |-> NilToken, err |-> answer.err]
    ELSE IF answer.status # 200 THEN [token |-> NilToken, err |-> "token refresh failed"]
    ELSE IF answer.body.kind # "json" THEN [token |-> NilToken, err |-> "invalid character"]
    ELSE [token |-> [Unmarshal(answer.body.doc) EXCEPT
                        !.ExpiresAt = now + Unmarshal(answer.body.doc).ExpiresIn],
          err |-> ""]

NoAuth ==
    [token |-> ZeroToken, file |-> NoFile, file0 |-> NoFile, now |-> 0, now0 |-> 0,
     answer |-> [err |-> "", status |-> 0, body |-> NoFile], newToken |-> NilToken,
     disk |-> "ok", loads |-> 0, posts |-> 0, writes |-> 0, returned |-> NilToken, err |-> ""]

-----------------------------------------------------------------------------
(* The workflow: commit.Run, and the MCP tools generate_commit_message and  *)
(* create_commit                                                           *)

Tasks == {"status", "diffstat", "diff", "log"}

\* the variables the goroutines assign
ResultVars == {"status", "fileStats", "diff", "log"}

\* var wg sync.WaitGroup, and no goroutine started
NoWaitGroup ==
    [count |-> 0,
     at |-> [t \in Tasks |-> "none"],
     failed |-> [t \in Tasks |-> FALSE],
     local |-> [t \in Tasks |-> <<>>],
     dones |-> [t \in Tasks |-> 0],
     writers |-> [v \in ResultVars |-> {}]]

\* git.Diff and git.DiffFiles return staged + "\n" + unstaged
DiffOf(staged, unstaged) == <<staged, [k |-> "nl"], unstaged>>

NoResult == [returned |-> "none", success |-> FALSE, text |-> ""]

\* Run and generate_commit_message return an error; create_commit returns an
\* output with Success false and the error text
Failure(o, text) ==
    IF o = "create"
    THEN [returned |-> "output", success |-> FALSE, text |-> text]
    ELSE [returned |-> "error", success |-> FALSE, text |-> text]

\* Run shows "No changes to commit" and returns nil; the tools fail
NoChangesResult(o) ==
    IF o = "cli"
    THEN [returned |-> "nil", success |-> FALSE, text |-> "No changes to commit"]
    ELSE Failure(o, "no changes to commit")

\* the error of a failed collection: errs[0], wrapped by create_commit
CollectionFailure(o, e) ==
    IF o = "create" THEN Failure(o, "failed to gather git info: " \o e) ELSE Failure(o, e)

\* Run returns nil; create_commit returns Success true and the message used
Committed(o, commitMsg) ==
    IF o = "cli"
    THEN [returned |-> "nil", success |-> TRUE, text |-> "Commit created!"]
    ELSE [returned |-> "output", success |-> TRUE, text |-> "", message |-> commitMsg]

\* mutant: a single failed fetch is let through
CollectionFailedSeveral(e) == Len(e) > 1

\* if len(errs) > 0 { return errs[0] }
CollectionFailed(e) == Len(e) > 0

\* mutant: only the empty string counts as no changes
NoChangesEmptyOnly(d) == TextLen(d) = 0

\* diff == "" || strings.TrimSpace(diff) == ""
NoChanges(d) == TextLen(d) = 0 \/ TrimSpaceEmpty(d)

\* totalSize := len(status) + len(diff) + len(log) + promptOverhead
TotalSize(st, d, l) == TextLen(st) + TextLen(d) + TextLen(l) + promptOverhead

\* maxPromptChars-len(status)-len(log)-promptOverhead
BudgetFor(st, l) == maxPromptChars - TextLen(st) - TextLen(l) - promptOverhead

\* mutant: the test of the header alone
hasSmartDiffHeaderOnly(stats, d) == ContainsHeader(d)

\* hasSmartDiff := len(fileStats) > 0 && strings.Contains(diff, "Changed Files Summary:")
hasSmartDiff(stats, d) == Len(stats) > 0 /\ ContainsHeader(d)

\* the prompt of generateCommitMessage: the template filled with status,
\* diff, contextNote, log and userInputSection
PromptOf(st, d, l, stats, hint) ==
    [status |-> st, diff |-> d, contextNote |-> hasSmartDiff(stats, d),
     log |-> l, userInput |-> hint]

\* len(prompt); the user-input section is added when userInput != ""
PromptLen(p) ==
    TemplateChars + TextLen(p.status) + TextLen(p.diff)
        + (IF p.contextNote THEN ContextNoteChars ELSE 0)
        + TextLen(p.log)
        + (IF TextLen(p.userInput) > 0 THEN UserInputFixedChars + TextLen(p.userInput) ELSE 0)

NoPrompt == [status |-> <<>>, diff |-> <<>>, contextNote |-> FALSE,
             log |-> <<>>, userInput |-> <<>>]

\* mutant: every failure of git log is passed on
LogPassesError(run) == run

\* git.Log: "no commits yet" becomes an empty history without error
Log(run) ==
    IF run.err = "does not have any commits yet"
    THEN [err |-> "", out |-> <<>>]
    ELSE run

\* git.DiffFiles: nothing is run for an empty list of paths
DiffFiles(paths, run) ==
    IF Len(paths) = 0 THEN [err |-> FALSE, text |-> <<>>] ELSE run

(* What the git commands can print *)

StatusTexts ==
    {<<Blob(40, FALSE, FALSE)>>, <<Blob(497000, FALSE, FALSE)>>, <<Blob(497850, FALSE, FALSE)>>}

DiffTexts ==
    {DiffOf(st, un) :
        st \in {Blob(0, FALSE, TRUE), Blob(300, FALSE, FALSE),
                Blob(300, TRUE, FALSE), Blob(600000, FALSE, FALSE)},
        un \in {Blob(0, FALSE, TRUE), Blob(50, FALSE, FALSE)}}

LogRuns ==
    {[err |-> "", out |-> <<Blob(80, FALSE, FALSE)>>],
     [err |-> "does not have any commits yet", out |-> <<>>],
     [err |-> "not a git repository", out |-> <<>>]}

\* outcomes of the two git runs of DiffFiles(selectedPaths)
DiffFilesRuns ==
    {[err |-> TRUE, text |-> <<>>],
     [err |-> FALSE, text |-> DiffOf(Blob(30, FALSE, FALSE), Blob(0, FALSE, TRUE))],
     [err |-> FALSE, text |-> DiffOf(Blob(600000, FALSE, FALSE), Blob(0, FALSE, TRUE))]}

Hints == {<<>>, <<Blob(2000, FALSE, FALSE)>>}

NumstatLine(a, r, words) == [added |-> a, removed |-> r, words |-> words]

\* the numstat outputs of the documented merge example
ExampleNumstat ==
    [staged   |-> <<NumstatLine(Num(2), Num(0), <<"a">>)>>,
     unstaged |-> <<NumstatLine(Num(0), Num(3), <<"a">>),
                    NumstatLine(Num(1), Num(1), <<"b">>)>>]

RepoStats ==
    {[staged |-> <<>>, unstaged |-> <<>>],
     ExampleNumstat,
     [staged |-> <<NumstatLine(Num(1), Num(0), <<"my", "a">>)>>, unstaged |-> <<>>]}

\* the repository of a run: the numstat outputs and what "git log" does
Repos ==
    {[staged |-> r.staged, unstaged |-> r.unstaged, history |-> h] :
        r \in RepoStats, h \in LogRuns}

Init ==
    /\ wg = NoWaitGroup
    /\ mu = "free"
    /\ op \in {"cli", "gen", "create"}
    /\ pc = IF op = "gen" THEN "token" ELSE "stage"
    /\ message \in IF op = "create" THEN {"", "given"} ELSE {""}
    /\ userInput \in Hints
    /\ repo \in Repos
    /\ status = <<>>
    /\ diff = <<>>
    /\ log = <<>>
    /\ fileStats = <<>>
    /\ errs = <<>>
    /\ finished = {}
    /\ budget = 0
    /\ smart = NoSmart
    /\ prompt = NoPrompt
    /\ asked = 0
    /\ proceed = "none"
    /\ auth = NoAuth
    /\ staging = "none"
    /\ commits = 0
    /\ result = NoResult

\* mutant: the error of git.Add is dropped and the entry point goes on
StageFailedIgnored(o) ==
    [pc |-> IF o = "cli" THEN "wait" ELSE "token", result |-> NoResult]

\* if err := git.Add("."); err != nil { return ... }
StageFailed(o) ==
    [pc |-> "done", result |-> Failure(o, "failed to stage changes")]

\* git.Add("."): first step of Run and of create_commit
Stage ==
    /\ pc = "stage"
    /\ \/ /\ staging' = "ok"
          /\ pc' = IF op = "cli" THEN "wait" ELSE IF message # "" THEN "commit" ELSE "token"
          /\ UNCHANGED result
       \/ /\ staging' = "failed"
          /\ pc' = StageFailed(op).pc
          /\ result' = StageFailed(op).result
    /\ UNCHANGED <<op, repo, auth, userInput, status, diff, log, fileStats, errs, finished,
                   budget, smart, prompt, message, asked, proceed, commits, wg, mu>>

\* the token file when a tool is called
TokenFiles == {NoFile, Garbage, JSONFile(Marshal(Token(Str("tok"), Str("r0"), 3600, 4600)))}

\* the handler stops in a panic
Panicked == [returned |-> "panic", success |-> FALSE, text |-> "nil pointer dereference"]

\* s.ensureValidToken() of the tools: auth.Load, then auth.EnsureValid on what
\* Load returned.  For a missing file Load returns (nil, nil), and EnsureValid
\* reads ExpiresAt through the nil pointer.
EnsureToken ==
    /\ pc = "token"
    /\ auth' = [auth EXCEPT !.loads = @ + 1]
    /\ \E file \in TokenFiles :
          IF Load(file).err # ""
          THEN /\ pc' = "done"
               /\ result' = IF op = "create"
                            THEN Failure(op, "failed to ensure valid token")
                            ELSE Failure(op, "failed to load token")
          ELSE IF Load(file).token = NilToken
          THEN /\ pc' = "done"
               /\ result' = Panicked
          ELSE \/ /\ pc' = "wait"
                  /\ UNCHANGED result
               \/ /\ pc' = "done"
                  /\ result' = Failure(op, "failed to ensure valid token")
    /\ UNCHANGED <<op, repo, staging, userInput, status, diff, log, fileStats, errs,
                   finished, budget, smart, prompt, message, asked, proceed, commits, wg, mu>>

\* the goroutine of git.Status
TaskStatus ==
    /\ pc = "wait"
    /\ "status" \notin finished
    /\ finished' = finished \cup {"status"}
    /\ \/ \E s \in StatusTexts : status' = s /\ UNCHANGED errs
       \/ errs' = Append(errs, "git status failed") /\ UNCHANGED status
    /\ UNCHANGED <<op, pc, repo, auth, staging, userInput, diff, log, fileStats,
                   budget, smart, prompt, message, asked, proceed, commits, result, wg, mu>>

\* the goroutine of git.DiffStat
TaskDiffStat ==
    /\ pc = "wait"
    /\ "diffstat" \notin finished
    /\ finished' = finished \cup {"diffstat"}
    /\ \/ fileStats' \in DiffStatResults(repo.staged, repo.unstaged) /\ UNCHANGED errs
       \/ errs' = Append(errs, "git diff stat failed") /\ UNCHANGED fileStats
    /\ UNCHANGED <<op, pc, repo, auth, staging, userInput, status, diff, log,
                   budget, smart, prompt, message, asked, proceed, commits, result, wg, mu>>

\* the goroutine of git.Diff
TaskDiff ==
    /\ pc = "wait"
    /\ "diff" \notin finished
    /\ finished' = finished \cup {"diff"}
    /\ \/ \E d \in DiffTexts : diff' = d /\ UNCHANGED errs
       \/ errs' = Append(errs, "git diff failed") /\ UNCHANGED diff
    /\ UNCHANGED <<op, pc, repo, auth, staging, userInput, status, log, fileStats,
                   budget, smart, prompt, message, asked, proceed, commits, result, wg, mu>>

\* the goroutine of git.Log
TaskLog ==
    /\ pc = "wait"
    /\ "log" \notin finished
    /\ finished' = finished \cup {"log"}
    /\ IF Log(repo.history).err = ""
       THEN log' = Log(repo.history).out /\ UNCHANGED errs
       ELSE errs' = Append(errs, "git log failed") /\ UNCHANGED log
    /\ UNCHANGED <<op, pc, repo, auth, staging, userInput, status, diff, fileStats,
                   budget, smart, prompt, message, asked, proceed, commits, result, wg, mu>>

\* wg.Wait() returns; the error check and the no-changes check
FanIn ==
    /\ pc = "wait"
    /\ finished = Tasks
    /\ IF CollectionFailed(errs)
       THEN pc' = "done" /\ result' = CollectionFailure(op, errs[1])
       ELSE IF NoChanges(diff)
            THEN pc' = "done" /\ result' = NoChangesResult(op)
            ELSE pc' = "collected" /\ UNCHANGED result
    /\ UNCHANGED <<op, repo, auth, staging, userInput, status, diff, log, fileStats, errs, finished,
                   budget, smart, prompt, message, asked, proceed, commits, wg, mu>>

\* commit.go, Run step 3: the choice between the full diff and buildSmartDiff
CLISelect ==
    /\ pc = "collected"
    /\ op = "cli"
    /\ pc' = "selected"
    /\ IF TotalSize(status, diff, log) > maxPromptChars
       THEN /\ budget' = BudgetFor(status, log)
            /\ \E run \in DiffFilesRuns :
                  smart' = buildSmartDiff(fileStats, diff, budget', run)
       ELSE /\ budget' = budget
            /\ smart' = [NoSmart EXCEPT !.text = diff]
    /\ UNCHANGED <<op, repo, auth, staging, userInput, status, diff, log, fileStats, errs, finished,
                   prompt, message, asked, proceed, commits, result, wg, mu>>

\* server.go, generateCommitMessage up to the choice of smartDiff
MCPSelect ==
    /\ pc = "collected"
    /\ op \in {"gen", "create"}
    /\ pc' = "selected"
    /\ IF TotalSize(status, diff, log) > maxPromptChars
       THEN /\ budget' = BudgetFor(status, log)
            /\ \E run \in DiffFilesRuns :
                  smart' = mcpBuildSmartDiff(fileStats, diff, budget', run)
       ELSE /\ budget' = budget
            /\ smart' = [NoSmart EXCEPT !.text = diff]
    /\ UNCHANGED <<op, repo, auth, staging, userInput, status, diff, log, fileStats, errs, finished,
                   prompt, message, asked, proceed, commits, result, wg, mu>>

\* generateCommitMessage: the prompt is built and handed to client.Ask
Ask ==
    /\ pc = "selected"
    /\ prompt' = PromptOf(status, smart.text, log, fileStats, userInput)
    /\ asked' = asked + 1
    /\ \/ /\ message' = "generated"
          /\ IF op = "gen"
             THEN /\ pc' = "done"
                  /\ result' = [returned |-> "output", success |-> TRUE, text |-> "generated"]
             ELSE /\ pc' = IF op = "cli" THEN "confirm" ELSE "commit"
                  /\ UNCHANGED result
       \/ /\ pc' = "done"
          /\ result' = IF op = "gen" THEN Failure(op, "client error")
                       ELSE Failure(op, "failed to generate commit message")
          /\ UNCHANGED message
    /\ UNCHANGED <<op, repo, auth, staging, userInput, status, diff, log, fileStats, errs, finished,
                   budget, smart, proceed, commits, wg, mu>>

\* mutant: the answer is not looked at
AfterConfirmAlways(answer) == "commit"

\* if !proceed { return fmt.Errorf("commit cancelled") }
AfterConfirm(answer) == IF answer = "yes" THEN "commit" ELSE "done"

\* tap.Confirm of Run and the test of its answer
Confirm ==
    /\ pc = "confirm"
    /\ \E answer \in {"yes", "no"} :
          /\ proceed' = answer
          /\ pc' = AfterConfirm(answer)
          /\ IF answer = "yes"
             THEN UNCHANGED result
             ELSE result' = Failure(op, "commit cancelled")
    /\ UNCHANGED <<op, repo, auth, staging, userInput, status, diff, log, fileStats, errs, finished,
                   budget, smart, prompt, message, asked, commits, wg, mu>>

\* git.Commit(commitMsg)
Commit ==
    /\ pc = "commit"
    /\ pc' = "done"
    /\ \/ commits' = commits + 1 /\ result' = Committed(op, message)
       \/ result' = Failure(op, "failed to create commit") /\ UNCHANGED commits
    /\ UNCHANGED <<op, repo, auth, staging, userInput, status, diff, log, fileStats, errs, finished,
                   budget, smart, prompt, message, asked, proceed, wg, mu>>

Next ==
    \/ Stage
    \/ EnsureToken
    \/ TaskStatus
    \/ TaskDiffStat
    \/ TaskDiff
    \/ TaskLog
    \/ FanIn
    \/ CLISelect
    \/ MCPSelect
    \/ Ask
    \/ Confirm
    \/ Commit

Spec == Init /\ [][Next]_vars

-----------------------------------------------------------------------------
(* Smart diff selection on collected snapshots: the workflow from the state *)
(* after the fan-in, over more lists of files and budgets                  *)

Paths == {"a", "bb", "ccc"}

FileChanges == [Path : Paths, Added : 0..MaxAdded, Removed : 0..MaxRemoved]

\* what DiffStat can return: at most one entry per path, in any order
StatLists ==
    {s \in UNION {[1..n -> FileChanges] : n \in 0..Cardinality(Paths)} :
        \A i, j \in 1..Len(s) : i # j => s[i].Path # s[j].Path}

\* the four files of the documented scenario, in two input orders
ScenarioFile(n) ==
    [Path |-> CASE n = 10 -> "file10" [] n = 20 -> "file20"
                [] n = 1000 -> "file1000" [] n = 2000 -> "file2000",
     Added |-> n, Removed |-> 0]

ScenarioLists ==
    {<<ScenarioFile(10), ScenarioFile(20), ScenarioFile(1000), ScenarioFile(2000)>>,
     <<ScenarioFile(2000), ScenarioFile(20), ScenarioFile(1000), ScenarioFile(10)>>}

ScenarioBudgets == {200, 324}

Budgets == {-1, 0} \cup {40 + 5 * k : k \in 0..MaxBudgetK}

\* a status text that leaves exactly b characters for the diff
StatusLeaving(b) == <<Blob(maxPromptChars - promptOverhead - b, FALSE, FALSE)>>

InitSmart ==
    /\ wg = NoWaitGroup
    /\ mu = "free"
    /\ op \in {"cli", "gen"}
    /\ pc = "collected"
    /\ \/ fileStats \in StatLists /\ \E b \in Budgets : status = StatusLeaving(b)
       \/ fileStats \in ScenarioLists /\ \E b \in ScenarioBudgets : status = StatusLeaving(b)
    /\ diff = DiffOf(Blob(600000, FALSE, FALSE), Blob(0, FALSE, TRUE))
    /\ log = <<>>
    /\ repo = [staged |-> <<>>, unstaged |-> <<>>, history |-> [err |-> "", out |-> <<>>]]
    /\ userInput = <<>>
    /\ errs = <<>>
    /\ finished = Tasks
    /\ budget = 0
    /\ smart = NoSmart
    /\ prompt = NoPrompt
    /\ message = ""
    /\ asked = 0
    /\ proceed = "none"
    /\ auth = NoAuth
    /\ staging = IF op = "cli" THEN "ok" ELSE "none"
    /\ commits = 0
    /\ result = NoResult

NextSmart == CLISelect \/ MCPSelect

SpecSmart == InitSmart /\ [][NextSmart]_vars

-----------------------------------------------------------------------------
(* git.DiffStat on the outputs of the two numstat runs *)

\* the paths of the numstat lines, in the order git prints them
StatPaths == << <<"a">>, <<"b">>, <<"my", "a">>, <<"my", "b">> >>

StatCounts ==
    {<<Num(a), Num(r)>> : a \in 0..MaxStat, r \in 0..MaxStat} \cup {<<Dash, Dash>>}

\* the outputs of one numstat run: at most MaxLines lines, one per path, the
\* paths in git's order
NumstatOutputs ==
    {out \in UNION {[1..n -> [added : {c[1] : c \in StatCounts},
                              removed : {c[2] : c \in StatCounts},
                              words : Range(StatPaths)]] : n \in 0..MaxLines} :
        /\ \A i \in 1..Len(out) : <<out[i].added, out[i].removed>> \in StatCounts
        /\ \A i, j \in 1..Len(out) :
              i < j => PosIn(StatPaths, out[i].words) < PosIn(StatPaths, out[j].words)}

InitStat ==
    /\ wg = NoWaitGroup
    /\ mu = "free"
    /\ op = "diffstat"
    /\ pc = "numstat"
    /\ \/ \E st \in NumstatOutputs, un \in NumstatOutputs :
             repo = [staged |-> st, unstaged |-> un, history |-> [err |-> "", out |-> <<>>]]
       \/ repo = [staged |-> ExampleNumstat.staged, unstaged |-> ExampleNumstat.unstaged,
                  history |-> [err |-> "", out |-> <<>>]]
    /\ status = <<>>
    /\ diff = <<>>
    /\ log = <<>>
    /\ fileStats = <<>>
    /\ userInput = <<>>
    /\ errs = <<>>
    /\ finished = {}
    /\ budget = 0
    /\ smart = NoSmart
    /\ prompt = NoPrompt
    /\ message = ""
    /\ asked = 0
    /\ proceed = "none"
    /\ auth = NoAuth
    /\ staging = "none"
    /\ commits = 0
    /\ result = NoResult

\* DiffStat when both git runs succeed
DiffStatReturns ==
    /\ pc = "numstat"
    /\ pc' = "returned"
    /\ fileStats' \in DiffStatResults(repo.staged, repo.unstaged)
    /\ result' = [returned |-> "nil", success |-> TRUE, text |-> ""]
    /\ UNCHANGED <<op, repo, auth, staging, userInput, status, diff, log, errs, finished,
                   budget, smart, prompt, message, asked, proceed, commits, wg, mu>>

\* DiffStat when one of the two git runs fails: return nil, err
DiffStatFails ==
    /\ pc = "numstat"
    /\ pc' = "returned"
    /\ result' = [returned |-> "error", success |-> FALSE, text |-> "git diff failed"]
    /\ UNCHANGED <<op, repo, auth, staging, userInput, status, diff, log, fileStats, errs, finished,
                   budget, smart, prompt, message, asked, proceed, commits, wg, mu>>

NextStat == DiffStatReturns \/ DiffStatFails

SpecStat == InitStat /\ [][NextStat]_vars

-----------------------------------------------------------------------------
(* git.Diff and git.DiffFiles on a work tree: which files' changes the text  *)
(* holds.  A path is the sequence of its components.                       *)

\* the file names of the excludes list
LockFiles ==
    <<"package-lock.json", "yarn.lock", "pnpm-lock.yaml", "Gemfile.lock", "Cargo.lock",
      "go.sum", "composer.lock", "Pipfile.lock", "poetry.lock", "mix.lock",
      "pubspec.lock", "Podfile.lock", "packages.lock.json", "paket.lock">>

\* the argument ":(exclude)" + name
Exclude(name) == [magic |-> "exclude", path |-> <<name>>]

\* a path given as an argument
PathArg(path) == [magic |-> "", path |-> path]

excludes == [i \in 1..Len(LockFiles) |-> Exclude(LockFiles[i])]

\* a pathspec without wildcard matches the path itself and what lies below it
Matches(spec, file) ==
    /\ Len(spec.path) <= Len(file)
    /\ \A i \in 1..Len(spec.path) : spec.path[i] = file[i]

\* the command word, an option or the "--"
Word(w) == [magic |-> "word", path |-> <<w>>]

IsPathspec(a) == a.magic # "word"

\* "git diff <args>" run by run(args...), on the set of changed files the
\* command compares.  Git reads the arguments before a "--" as revisions, and
\* ":(exclude)..." names none: the run fails with "bad revision".  Without a
\* "--" the ":(...)" arguments are pathspecs; when all of them are excludes
\* every changed file that matches none of them is shown.
GitDiff(args, changed) ==
    LET specs    == {args[i] : i \in {j \in 1..Len(args) : IsPathspec(args[j])}}
        dashdash == {i \in 1..Len(args) : args[i] = Word("--")}
        asRevs   == {i \in 1..Len(args) :
                        IsPathspec(args[i]) /\ \E d \in dashdash : i < d}
        wanted   == {sp \in specs : sp.magic = ""}
        unwanted == {sp \in specs : sp.magic = "exclude"}
        shown    == {f \in changed :
                        /\ wanted = {} \/ \E sp \in wanted : Matches(sp, f)
                        /\ ~ \E sp \in unwanted : Matches(sp, f)}
    IN  IF asRevs # {}
        THEN [err |-> TRUE, out |-> Blob(0, FALSE, TRUE), files |-> {}]
        ELSE [err |-> FALSE,
              out |-> Blob(100 * Cardinality(shown), FALSE, shown = {}),
              files |-> shown]

\* the two runs of Diff and of DiffFiles: the first error is returned, else
\* staged + "\n" + unstaged
TwoRuns(stagedArgs, unstagedArgs, tree) ==
    LET staged   == GitDiff(stagedArgs, tree.staged)
        unstaged == GitDiff(unstagedArgs, tree.unstaged)
    IN  IF staged.err \/ unstaged.err
        THEN [err |-> TRUE, text |-> <<>>, files |-> {}]
        ELSE [err |-> FALSE, text |-> DiffOf(staged.out, unstaged.out),
              files |-> staged.files \cup unstaged.files]

\* git.Diff()
Diff(tree) ==
    TwoRuns(<<Word("diff"), Word("--cached")>> \o excludes,
            <<Word("diff")>> \o excludes, tree)

\* the two runs of git.DiffFiles(paths) for a non-empty list of paths
DiffFilesRun(paths, tree) ==
    LET args == [i \in 1..Len(paths) |-> PathArg(paths[i])]
    IN  TwoRuns(<<Word("diff"), Word("--cached")>> \o excludes \o <<Word("--")>> \o args,
                <<Word("diff")>> \o excludes \o <<Word("--")>> \o args, tree)

\* the changed files of the work trees
TreeFiles ==
    {<<"src", "app.ts">>, <<"package-lock.json">>, <<"go.sum">>,
     <<"web", "package-lock.json">>}

\* the lists of paths DiffFiles is called with
PathLists ==
    {p \in UNION {[1..n -> TreeFiles] : n \in 0..2} :
        \A i, j \in 1..Len(p) : i # j => p[i] # p[j]}

InitLock ==
    /\ wg = NoWaitGroup
    /\ mu = "free"
    /\ op \in {"Diff", "DiffFiles"}
    /\ pc = "call"
    /\ \E st \in SUBSET TreeFiles, un \in SUBSET TreeFiles :
          repo = [staged |-> st, unstaged |-> un, history |-> [err |-> "", out |-> <<>>]]
    /\ \E p \in PathLists :
          smart = [NoSmart EXCEPT !.selectedPaths = IF op = "DiffFiles" THEN p ELSE <<>>]
    /\ status = <<>>
    /\ diff = <<>>
    /\ log = <<>>
    /\ fileStats = <<>>
    /\ userInput = <<>>
    /\ errs = <<>>
    /\ finished = {}
    /\ budget = 0
    /\ prompt = NoPrompt
    /\ message = ""
    /\ asked = 0
    /\ proceed = "none"
    /\ auth = NoAuth
    /\ staging = "none"
    /\ commits = 0
    /\ result = NoResult

\* a call of git.Diff()
CallDiff ==
    /\ pc = "call"
    /\ op = "Diff"
    /\ pc' = "returned"
    /\ LET r == Diff(repo)
       IN  /\ diff' = r.text
           /\ result' = [returned |-> IF r.err THEN "error" ELSE "nil",
                         success |-> ~r.err, text |-> "", files |-> r.files]
    /\ UNCHANGED <<op, repo, auth, staging, userInput, status, log, fileStats, errs, finished,
                   budget, smart, prompt, message, asked, proceed, commits, wg, mu>>

\* a call of git.DiffFiles(selectedPaths)
CallDiffFiles ==
    /\ pc = "call"
    /\ op = "DiffFiles"
    /\ pc' = "returned"
    /\ LET run == DiffFilesRun(smart.selectedPaths, repo)
           r   == DiffFiles(smart.selectedPaths, run)
       IN  /\ diff' = r.text
           /\ result' = [returned |-> IF r.err THEN "error" ELSE "nil",
                         success |-> ~r.err, text |-> "",
                         files |-> IF Len(smart.selectedPaths) = 0 THEN {} ELSE run.files]
    /\ UNCHANGED <<op, repo, auth, staging, userInput, status, log, fileStats, errs, finished,
                   budget, smart, prompt, message, asked, proceed, commits, wg, mu>>

NextLock == CallDiff \/ CallDiffFiles

SpecLock == InitLock /\ [][NextLock]_vars

-----------------------------------------------------------------------------
(* auth.EnsureValid(token, path, clientID, tokenURL) *)

\* the clock when EnsureValid is called
CallTimes == {1000, 1001}

\* the tokens EnsureValid is called with: expired, on the edge of the buffer,
\* valid
GivenTokens ==
    {Token(Str("old"), Str("r0"), 3600, at) : at \in {999, 1060, 1061, 1062, 4600}}

\* what the token endpoint answers to the refresh request
Answers ==
    {[err |-> "connection refused", status |-> 0, body |-> NoFile],
     [err |-> "", status |-> 400, body |-> Garbage],
     [err |-> "", status |-> 200, body |-> Garbage],
     [err |-> "", status |-> 200,
      body |-> JSONFile([k \in {"access_token", "refresh_token", "expires_in"} |->
                  CASE k = "access_token" -> Str("new")
                    [] k = "refresh_token" -> Str("r1")
                    [] k = "expires_in" -> 3600])],
     [err |-> "", status |-> 200,
      body |-> JSONFile([k \in {"access_token", "expires_in"} |->
                  CASE k = "access_token" -> Str("new")
                    [] k = "expires_in" -> 30])]}

InitToken ==
    /\ wg = NoWaitGroup
    /\ mu = "free"
    /\ op = "EnsureValid"
    /\ pc = "call"
    /\ \E t \in GivenTokens, now \in CallTimes, a \in Answers, d \in {"ok", "full"} :
       \E f \in {NoFile, JSONFile(Marshal(t))} :
          auth = [NoAuth EXCEPT !.token = t, !.file = f, !.file0 = f, !.now = now,
                                !.now0 = now, !.answer = a, !.disk = d]
    /\ repo = [staged |-> <<>>, unstaged |-> <<>>, history |-> [err |-> "", out |-> <<>>]]
    /\ staging = "none"
    /\ status = <<>>
    /\ diff = <<>>
    /\ log = <<>>
    /\ fileStats = <<>>
    /\ userInput = <<>>
    /\ errs = <<>>
    /\ finished = {}
    /\ budget = 0
    /\ smart = NoSmart
    /\ prompt = NoPrompt
    /\ message = ""
    /\ asked = 0
    /\ proceed = "none"
    /\ commits = 0
    /\ result = NoResult

\* if token.IsValid() { return token, nil }
CheckValid ==
    /\ pc = "call"
    /\ op = "EnsureValid"
    /\ IF IsValid(auth.token, auth.now)
       THEN /\ pc' = "done"
            /\ auth' = [auth EXCEPT !.returned = auth.token]
       ELSE /\ pc' = "refresh"
            /\ UNCHANGED auth
    /\ UNCHANGED <<op, repo, staging, userInput, status, diff, log, fileStats, errs,
                   finished, budget, smart, prompt, message, asked, proceed, commits,
                   result, wg, mu>>

\* newToken, err := Refresh(token, clientID, tokenURL)
CallRefresh ==
    /\ pc = "refresh"
    /\ \E tick \in 0..MaxTick :
          LET r == Refresh(auth.answer, auth.now + tick)
          IN  /\ auth' = [auth EXCEPT !.posts = @ + 1, !.now = @ + tick,
                                      !.newToken = r.token, !.err = r.err]
              /\ pc' = IF r.err = "" THEN "save" ELSE "done"
    /\ UNCHANGED <<op, repo, staging, userInput, status, diff, log, fileStats, errs,
                   finished, budget, smart, prompt, message, asked, proceed, commits,
                   result, wg, mu>>

\* Save(newToken, path) and the return
CallSave ==
    /\ pc = "save"
    /\ pc' = "done"
    /\ IF auth.disk = "ok"
       THEN auth' = [auth EXCEPT !.file = JSONFile(Marshal(auth.newToken)),
                                 !.writes = @ + 1, !.returned = auth.newToken]
       ELSE auth' = [auth EXCEPT !.err = "no space left on device"]
    /\ UNCHANGED <<op, repo, staging, userInput, status, diff, log, fileStats, errs,
                   finished, budget, smart, prompt, message, asked, proceed, commits,
                   result, wg, mu>>

NextToken == CheckValid \/ CallRefresh \/ CallSave

SpecToken == InitToken /\ [][NextToken]_vars

-----------------------------------------------------------------------------
(* The fan-out and fan-in of the collection, one step per statement of the  *)
(* goroutines: the fetch, mu.Lock, the read and the write of the append,    *)
(* mu.Unlock, the deferred wg.Done, and wg.Wait of the coordinator          *)

\* wg.Add(n)
Add(w, n) == [w EXCEPT !.count = @ + n]

\* go func() { ... }()
Go(w) == [w EXCEPT !.at = [t \in Tasks |-> "go"]]

\* the variable the goroutine of a fetch assigns
ResultVar(t) ==
    CASE t = "status" -> "status"
      [] t = "diffstat" -> "fileStats"
      [] t = "diff" -> "diff"
      [] t = "log" -> "log"

\* mutant: every goroutine reports the first one's message
ErrOfStatus(t) == "git status failed"

\* fmt.Errorf("git ... failed: %w", err)
ErrOf(t) ==
    CASE t = "status" -> "git status failed"
      [] t = "diffstat" -> "git diff stat failed"
      [] t = "diff" -> "git diff failed"
      [] t = "log" -> "git log failed"

\* what a fetch can return when it succeeds
FetchedBy(t) ==
    CASE t = "status" -> {<<Blob(40, FALSE, FALSE)>>}
      [] t = "diffstat" -> DiffStatResults(repo.staged, repo.unstaged)
      [] t = "diff" -> {DiffOf(Blob(300, FALSE, FALSE), Blob(0, FALSE, TRUE)),
                        DiffOf(Blob(0, FALSE, TRUE), Blob(0, FALSE, TRUE))}
      [] t = "log" -> {Log(repo.history).out}

\* mutant: Lock returns at once
LockableAlways(m) == TRUE

\* mu.Lock() returns when no goroutine holds mu
Lockable(m) == m = "free"

\* defer wg.Done()
Done(w, t) == [w EXCEPT !.count = @ - 1, !.dones[t] = @ + 1, !.at[t] = "exited"]

\* mutant: Wait returns while one goroutine is still running
WaitReturnsEarly(w) == w.count <= 1

\* wg.Wait() returns when the counter is zero
WaitReturns(w) == w.count = 0

InitFanIn ==
    /\ wg = Go(Add(NoWaitGroup, 4))
    /\ mu = "free"
    /\ op \in {"cli", "gen", "create"}
    /\ pc = "wait"
    /\ message = ""
    /\ userInput = Blob(0, FALSE, TRUE)
    /\ repo \in {r \in Repos : r.staged # <<>> /\ r.unstaged # <<>>}
    /\ status = <<>>
    /\ diff = <<>>
    /\ log = <<>>
    /\ fileStats = <<>>
    /\ errs = <<>>
    /\ finished = {}
    /\ budget = 0
    /\ smart = NoSmart
    /\ prompt = NoPrompt
    /\ asked = 0
    /\ proceed = "none"
    /\ auth = NoAuth
    /\ staging = IF op = "gen" THEN "none" ELSE "ok"
    /\ commits = 0
    /\ result = NoResult

\* s, err := git.Status() and its three siblings; on success the assignment
Fetch(t) ==
    /\ pc = "wait"
    /\ wg.at[t] = "go"
    /\ \/ /\ t = "log" => Log(repo.history).err = ""
          /\ \E v \in FetchedBy(t) :
                /\ status' = IF ResultVar(t) = "status" THEN v ELSE status
                /\ fileStats' = IF ResultVar(t) = "fileStats" THEN v ELSE fileStats
                /\ diff' = IF ResultVar(t) = "diff" THEN v ELSE diff
                /\ log' = IF ResultVar(t) = "log" THEN v ELSE log
          /\ wg' = [wg EXCEPT !.at[t] = "defer", !.writers[ResultVar(t)] = @ \cup {t}]
       \/ /\ t = "log" => Log(repo.history).err # ""
          /\ wg' = [wg EXCEPT !.at[t] = "lock", !.failed[t] = TRUE]
          /\ UNCHANGED <<status, fileStats, diff, log>>
    /\ UNCHANGED <<op, pc, repo, auth, staging, userInput, errs, finished, budget, smart,
                   prompt, message, asked, proceed, commits, result, mu>>

\* mu.Lock()
Lock(t) ==
    /\ pc = "wait"
    /\ wg.at[t] = "lock"
    /\ Lockable(mu)
    /\ mu' = t
    /\ wg' = [wg EXCEPT !.at[t] = "read"]
    /\ UNCHANGED <<op, pc, repo, auth, staging, userInput, status, diff, log, fileStats, errs,
                   finished, budget, smart, prompt, message, asked, proceed, commits, result>>

\* append(errs, ...): the slice is read
ReadErrs(t) ==
    /\ pc = "wait"
    /\ wg.at[t] = "read"
    /\ wg' = [wg EXCEPT !.at[t] = "append", !.local[t] = errs]
    /\ UNCHANGED <<op, pc, repo, auth, staging, userInput, status, diff, log, fileStats, errs,
                   finished, budget, smart, prompt, message, asked, proceed, commits, result,
                   mu>>

\* errs = append(errs, ...): the longer slice is stored
AppendErr(t) ==
    /\ pc = "wait"
    /\ wg.at[t] = "append"
    /\ errs' = Append(wg.local[t], ErrOf(t))
    /\ wg' = [wg EXCEPT !.at[t] = "unlock"]
    /\ UNCHANGED <<op, pc, repo, auth, staging, userInput, status, diff, log, fileStats,
                   finished, budget, smart, prompt, message, asked, proceed, commits, result,
                   mu>>

\* mu.Unlock(); return
Unlock(t) ==
    /\ pc = "wait"
    /\ wg.at[t] = "unlock"
    /\ mu' = "free"
    /\ wg' = [wg EXCEPT !.at[t] = "defer"]
    /\ UNCHANGED <<op, pc, repo, auth, staging, userInput, status, diff, log, fileStats, errs,
                   finished, budget, smart, prompt, message, asked, proceed, commits, result>>

\* the deferred wg.Done() of a goroutine that returns
Deferred(t) ==
    /\ pc = "wait"
    /\ wg.at[t] = "defer"
    /\ wg' = Done(wg, t)
    /\ finished' = finished \cup {t}
    /\ UNCHANGED <<op, pc, repo, auth, staging, userInput, status, diff, log, fileStats, errs,
                   budget, smart, prompt, message, asked, proceed, commits, result, mu>>

\* wg.Wait() returns; the coordinator reads errs and diff
Wait ==
    /\ pc = "wait"
    /\ WaitReturns(wg)
    /\ IF CollectionFailed(errs)
       THEN pc' = "done" /\ result' = CollectionFailure(op, errs[1])
       ELSE IF NoChanges(diff)
            THEN pc' = "done" /\ result' = NoChangesResult(op)
            ELSE pc' = "collected" /\ UNCHANGED result
    /\ UNCHANGED <<op, repo, auth, staging, userInput, status, diff, log, fileStats, errs,
                   finished, budget, smart, prompt, message, asked, proceed, commits, wg, mu>>

Goroutine(t) ==
    \/ Fetch(t)
    \/ Lock(t)
    \/ ReadErrs(t)
    \/ AppendErr(t)
    \/ Unlock(t)
    \/ Deferred(t)

NextFanIn ==
    \/ \E t \in Tasks : Goroutine(t)
    \/ Wait

SpecFanIn == InitFanIn /\ [][NextFanIn]_vars

\* the scheduler runs every goroutine that can take a step, and every fetch
\* returns
SpecFanInFair ==
    /\ SpecFanIn
    /\ \A t \in Tasks : WF_vars(Goroutine(t))
    /\ WF_vars(Wait)

-----------------------------------------------------------------------------
(* Helpers of the properties *)

KindOnly(t, kind) == SelectSeq(t, LAMBDA s : s.k = kind)

RECURSIVE SumChurn(_, _)
\* total churn of the first n files of a list
SumChurn(s, n) == IF n = 0 THEN 0 ELSE Churn(s[n]) + SumChurn(s, n - 1)

\* the smart selection ran on a non-empty list of files
Selected == pc = "selected" /\ ~smart.early /\ smart.summary # <<>>

\* the ranking and the walk of the copy of buildSmartDiff that ran, for budget b
SameCopy(b) ==
    IF op = "cli"
    THEN buildSmartDiff(fileStats, diff, b, [err |-> TRUE, text |-> <<>>])
    ELSE mcpBuildSmartDiff(fileStats, diff, b, [err |-> TRUE, text |-> <<>>])

\* position of the file with path p in a list of files
PosOf(s, p) == CHOOSE i \in 1..Len(s) : s[i].Path = p

PathsOf(s) == [i \in 1..Len(s) |-> s[i].Path]

\* the ranked files that fail the budget test, told without the walk: the file
\* at rank i fails when the summary and the first i files together exceed b
FailedPaths(sorted, b) ==
    PathsOf(SelectSeq(
        [i \in 1..Len(sorted) |-> [Path |-> sorted[i].Path,
                                   over |-> TextLen(SummaryBlock(fileStats))
                                              + 5 * SumChurn(sorted, i) > b]],
        LAMBDA f : f.over))

-----------------------------------------------------------------------------
\* buildSmartDiff was called for the prompt
SmartInvoked == smart.early \/ smart.summary # <<>>

\* C1: whenever len(status)+len(diff)+len(history)+2000 <= 500000, the diff
\* section of the prompt is the raw diff exactly: smart selection is not
\* invoked and no summary block, excluded-files note or selected-files caveat
\* is added to it.
C1_Original ==
    (asked > 0 /\ TotalSize(status, diff, log) <= maxPromptChars) =>
        /\ prompt.diff = diff
        /\ ~SmartInvoked
        /\ KindOnly(prompt.diff, "hdr") = <<>>
        /\ KindOnly(prompt.diff, "note") = <<>>
        /\ ~prompt.contextNote

-----------------------------------------------------------------------------
\* C2 (as claimed): whenever the total size exceeds 500000, for any changes
\* collection, the diff section contains the summary header and lists every
\* file of changes exactly once, with its own counts, in the snapshot's order.
C2_Original ==
    (pc = "selected" /\ TotalSize(status, diff, log) > maxPromptChars) =>
        /\ ContainsHeader(smart.text)
        /\ KindOnly(smart.text, "line")
             = [i \in 1..Len(fileStats) |-> SummaryLine(fileStats[i])]

\* C2 (amended): the same for every non-empty changes collection; with no file
\* statistics buildSmartDiff returns the full diff and writes no summary.
C2_SummaryFloor ==
    (pc = "selected" /\ TotalSize(status, diff, log) > maxPromptChars
       /\ Len(fileStats) > 0) =>
        /\ Len(KindOnly(smart.text, "hdr")) = 1
        /\ smart.text[1].k = "hdr"
        /\ KindOnly(smart.text, "line")
             = [i \in 1..Len(fileStats) |->
                  [k |-> "line", path |-> fileStats[i].Path,
                   added |-> fileStats[i].Added, removed |-> fileStats[i].Removed]]

C2_Witness ==
    /\ pc = "selected"
    /\ Len(fileStats) = 3
    /\ fileStats[1].Added + fileStats[1].Removed > fileStats[3].Added + fileStats[3].Removed
    /\ fileStats[3].Added + fileStats[3].Removed = 0
    /\ smart.selectedPaths # <<>>
    /\ smart.excludedPaths # <<>>
    /\ Len(KindOnly(smart.text, "line")) = 3

\* C3: the prompt handed to the language-model client never exceeds
\* maxChars = 500000 characters, for every snapshot and every user hint, also
\* after smart diff selection.
C3_Original == asked > 0 => PromptLen(prompt) <= maxPromptChars

\* C4: with the file statistics fixed, every file selected with the budget of
\* the call is also selected with any larger budget.
C4_BudgetMonotonic ==
    (pc = "selected" /\ TotalSize(status, diff, log) > maxPromptChars) =>
        \A b2 \in Budgets \cup ScenarioBudgets :
            b2 >= budget =>
                Range(smart.selectedPaths) \subseteq Range(SameCopy(b2).selectedPaths)

C4_Witness ==
    /\ pc = "selected"
    /\ smart.selectedPaths # <<>>
    /\ smart.excludedPaths # <<>>
    /\ \E b2 \in Budgets :
          /\ b2 > budget
          /\ Range(smart.selectedPaths) # Range(SameCopy(b2).selectedPaths)
          /\ SameCopy(b2).excludedPaths # <<>>

C6_ExcludedNote ==
    (pc = "selected" /\ TotalSize(status, diff, log) > maxPromptChars) =>
        LET notes  == KindOnly(smart.text, "note")
            failed == FailedPaths(smart.sorted, budget)
        IN  /\ Len(notes) <= 1
            /\ Len(notes) = 1 <=> failed # <<>>
            /\ Len(notes) = 1 =>
                 /\ notes[1].count = Len(notes[1].paths)
                 /\ notes[1].paths = failed
                 /\ smart.text[Len(smart.text)] = notes[1]

C6_Witness ==
    /\ pc = "selected"
    /\ smart.selectedPaths # <<>>
    /\ Len(KindOnly(smart.text, "note")) = 1
    /\ KindOnly(smart.text, "note")[1].count = 1

\* C7 (as claimed): four files of churn 10, 20, 1000, 2000 and
\* availableForDiff = 200: attempted in the order 10, 20, 1000, 2000, running
\* total 50 then 150, selected file10 and file20, excluded the other two.
C7_Original ==
    (pc = "selected" /\ fileStats \in ScenarioLists /\ budget = 200) =>
        /\ PathsOf(smart.sorted) = <<"file10", "file20", "file1000", "file2000">>
        /\ smart.running[1] = 50
        /\ smart.running[2] = 150
        /\ smart.selectedPaths = <<"file10", "file20">>
        /\ smart.excludedPaths = <<"file1000", "file2000">>

\* C7 (amended): the running total starts at the size of the summary block
\* (124 characters here), so the claimed outcome is that of a budget of 324,
\* which leaves 200 characters after the summary: running total 174 after
\* file10 and 274 after file20, the other two excluded.  With a budget of 200
\* only file10 is selected.
C7_Scenario ==
    (pc = "selected" /\ fileStats \in ScenarioLists) =>
        /\ PathsOf(smart.sorted) = <<"file10", "file20", "file1000", "file2000">>
        /\ smart.summarySize = 124
        /\ budget = 324 =>
             /\ smart.running = <<174, 274, 274, 274>>
             /\ smart.selectedPaths = <<"file10", "file20">>
             /\ smart.excludedPaths = <<"file1000", "file2000">>
        /\ budget = 200 =>
             /\ smart.running = <<174, 174, 174, 174>>
             /\ smart.selectedPaths = <<"file10">>
             /\ smart.excludedPaths = <<"file20", "file1000", "file2000">>

C7_Witness ==
    /\ pc = "selected"
    /\ fileStats \in ScenarioLists
    /\ fileStats[1].Path = "file2000"
    /\ budget = 324
    /\ smart.usedBudget = 274
    /\ smart.fetched

\* C8 (as claimed): with a budget of zero or less every file of changes is
\* excluded, nothing is fetched and the diff section is the summary block
\* followed by the excluded-files note naming all files.
C8_Original ==
    (pc = "selected" /\ TotalSize(status, diff, log) > maxPromptChars /\ budget <= 0) =>
        /\ smart.selectedPaths = <<>>
        /\ Len(smart.excludedPaths) = Len(fileStats)
        /\ ~smart.fetched
        /\ KindOnly(smart.text, "detail") = <<>>
        /\ KindOnly(smart.text, "blob") = <<>>
        /\ Len(KindOnly(smart.text, "hdr")) = 1
        /\ Len(KindOnly(smart.text, "note")) = 1

\* C8 (amended): the same for a non-empty changes collection; with no file
\* statistics the diff section is the full diff, whatever the budget.
C8_DegenerateBudget ==
    (pc = "selected" /\ TotalSize(status, diff, log) > maxPromptChars /\ budget <= 0
       /\ Len(fileStats) > 0) =>
        /\ smart.selectedPaths = <<>>
        /\ Range(smart.excludedPaths) = {fileStats[i].Path : i \in 1..Len(fileStats)}
        /\ Len(smart.excludedPaths) = Len(fileStats)
        /\ ~smart.fetched
        /\ smart.text
             = <<[k |-> "hdr"]>>
                \o [i \in 1..Len(fileStats) |->
                      [k |-> "line", path |-> fileStats[i].Path,
                       added |-> fileStats[i].Added, removed |-> fileStats[i].Removed]]
                \o <<[k |-> "nl"],
                     [k |-> "note", count |-> Len(fileStats), paths |-> smart.excludedPaths]>>

C8_Witness ==
    /\ pc = "selected"
    /\ budget = 0
    /\ Len(fileStats) = 3
    /\ \E i \in 1..3 : fileStats[i].Added + fileStats[i].Removed = 0
    /\ Len(smart.excludedPaths) = 3
    /\ smart.text[Len(smart.text)].k = "note"

RECURSIVE JoinWords(_)
\* the path of a numstat line: its words with the spaces between them
JoinWords(words) ==
    IF Len(words) = 1 THEN words[1] ELSE words[1] \o " " \o JoinWords(Tail(words))

RECURSIVE SumOf(_, _, _)
\* the sum of field f (1 added, 2 removed) over the lines of path w
SumOf(lines, w, f) ==
    IF lines = <<>> THEN 0
    ELSE (IF lines[1].words = w
          THEN (IF f = 1 THEN lines[1].added.v ELSE lines[1].removed.v)
          ELSE 0)
         + SumOf(Tail(lines), w, f)

\* C9: DiffStat merges the staged and the unstaged statistics into exactly one
\* FileChange per distinct path: counts of a path present in both are summed,
\* a path present in one keeps its counts, no path is dropped or duplicated.
C9_Original ==
    (pc = "returned" /\ result.returned = "nil") =>
        LET lines == repo.staged \o repo.unstaged
            paths == {lines[i].words : i \in 1..Len(lines)}
        IN  /\ Len(fileStats) = Cardinality(paths)
            /\ \A w \in paths :
                  \E i \in 1..Len(fileStats) :
                      fileStats[i] = [Path |-> JoinWords(w),
                                      Added |-> SumOf(lines, w, 1),
                                      Removed |-> SumOf(lines, w, 2)]

\* C10: whenever the collected diff is empty or only whitespace, the workflow
\* reports "no changes to commit", never calls the language-model client and
\* never creates a commit: Run returns after showing the message,
\* generate_commit_message returns an error, create_commit returns
\* success=false.
C10_EmptyDiffShortCircuit ==
    (finished = Tasks /\ (TextLen(diff) = 0 \/ TrimSpaceEmpty(diff))) =>
        /\ asked = 0
        /\ commits = 0
        /\ prompt = NoPrompt
        /\ pc \in {"wait", "done"}
        /\ (pc = "done" /\ Len(errs) = 0) =>
             /\ op = "cli" =>
                  result = [returned |-> "nil", success |-> FALSE,
                            text |-> "No changes to commit"]
             /\ op = "gen" =>
                  result = [returned |-> "error", success |-> FALSE,
                            text |-> "no changes to commit"]
             /\ op = "create" =>
                  result = [returned |-> "output", success |-> FALSE,
                            text |-> "no changes to commit"]

C10_Witness ==
    /\ pc = "done"
    /\ op = "create"
    /\ message = ""
    /\ finished = Tasks
    /\ Len(errs) = 0
    /\ Len(fileStats) > 0
    /\ TrimSpaceEmpty(diff)
    /\ TextLen(diff) > 0
    /\ result.text = "no changes to commit"

\* C11: if any of the four repository reads fails, the operation returns the
\* first recorded error after the fan-in and uses no partial snapshot: no
\* smart selection, no prompt, no call of the language-model client, no
\* confirmation and no commit.
C11_CollectionFailure ==
    (finished = Tasks /\ Len(errs) > 0) =>
        /\ pc \in {"wait", "done"}
        /\ smart = NoSmart
        /\ prompt = NoPrompt
        /\ asked = 0
        /\ message = ""
        /\ commits = 0
        /\ pc = "done" =>
             /\ ~result.success
             /\ result.returned = IF op = "create" THEN "output" ELSE "error"
             /\ result.text = IF op = "create"
                               THEN "failed to gather git info: " \o errs[1]
                               ELSE errs[1]

C11_Witness ==
    /\ pc = "done"
    /\ finished = Tasks
    /\ Len(errs) = 1
    /\ errs[1] = "git log failed"
    /\ ~NoChanges(diff)
    /\ Len(fileStats) > 0
    /\ result.text = "git log failed"

\* the repository has no commits: "git log" fails with git's message
ZeroCommits == repo.history.err = "does not have any commits yet"

\* C12: in a repository with zero commits git.Log returns the empty string and
\* no error, so the history fetch records no error, the history is empty and
\* the collection does not fail because of it.
C12_ZeroCommitsHistory ==
    (ZeroCommits /\ "log" \in finished) =>
        /\ log = <<>>
        /\ \A i \in 1..Len(errs) : errs[i] # "git log failed"
        /\ (pc = "done" /\ result.returned = "error") => result.text # "git log failed"
        /\ asked > 0 => prompt.log = <<>>

C12_Witness ==
    /\ ZeroCommits
    /\ finished = Tasks
    /\ Len(errs) = 0
    /\ asked = 1
    /\ prompt.log = <<>>
    /\ commits = 1

\* C13: no error of a repository-inspector call made while producing a commit
\* message is swallowed, except "no commits yet": when a fetch of the
\* collection or the selected-files fetch of smart selection returned an error,
\* the operation does not go on to the language-model client and ends in
\* failure.
C13_Original ==
    (Len(errs) > 0 \/ smart.fetchFailed) =>
        /\ asked = 0
        /\ commits = 0
        /\ pc = "done" => ~result.success

\* C15: in every smart-selected diff section, every file of changes either has
\* its diff in the text fetched under "Detailed Diffs (selected files)" or is
\* named in the excluded-files note, for every outcome of the selected-files
\* fetch.
C15_Original ==
    Selected =>
        LET notes == KindOnly(smart.text, "note")
            named == IF notes = <<>> THEN {} ELSE Range(notes[1].paths)
            shown == IF KindOnly(smart.text, "detail") # <<>>
                        /\ KindOnly(smart.text, "blob") # <<>>
                     THEN Range(smart.selectedPaths)
                     ELSE {}
        IN  \A i \in 1..Len(fileStats) :
                fileStats[i].Path \in named \cup shown

\* a path of the lock-file denylist
IsLockPath(f) == Len(f) = 1 /\ f[1] \in Range(LockFiles)

\* C14: in a repository where git diff works, the text returned by Diff() and
\* by DiffFiles(paths) holds no content of a path of the lock-file denylist and
\* holds the content of every changed file that is not such a path (for
\* DiffFiles: of every requested one).
C14_Original ==
    pc = "returned" =>
        LET changed == repo.staged \cup repo.unstaged
            asked4  == IF op = "Diff" THEN changed
                       ELSE changed \cap Range(smart.selectedPaths)
        IN  /\ \A f \in result.files : ~IsLockPath(f)
            /\ \A f \in asked4 : ~IsLockPath(f) => f \in result.files

\* what holds of Run in every state
C16_State ==
    op = "cli" =>
        /\ commits <= 1
        /\ asked <= 1
        /\ commits = 1 =>
             /\ staging = "ok"
             /\ finished = Tasks
             /\ errs = <<>>
             /\ ~NoChanges(diff)
             /\ asked = 1
             /\ message = "generated"
             /\ proceed = "yes"
             /\ result = [returned |-> "nil", success |-> TRUE, text |-> "Commit created!"]
        /\ (pc = "done" /\ result.text = "failed to generate commit message") =>
             /\ result.returned = "error"
             /\ asked = 1
             /\ proceed = "none"
             /\ commits = 0
        /\ proceed = "no" =>
             /\ pc = "done"
             /\ result = [returned |-> "error", success |-> FALSE, text |-> "commit cancelled"]
             /\ commits = 0

\* what holds of every step of Run: each position is entered from the one
\* before it only
C16_Step ==
    op = "cli" =>
        /\ commits' # commits => (pc = "commit" /\ commits = 0 /\ commits' = 1)
        /\ (pc' = "commit" /\ pc # "commit") => (pc = "confirm" /\ proceed' = "yes")
        /\ (pc' = "confirm" /\ pc # "confirm") =>
             (pc = "selected" /\ asked = 0 /\ asked' = 1 /\ message' = "generated")
        /\ (pc' = "selected" /\ pc # "selected") => pc = "collected"
        /\ (pc' = "collected" /\ pc # "collected") =>
             (pc = "wait" /\ finished = Tasks /\ errs = <<>> /\ ~NoChanges(diff))
        /\ (pc' = "wait" /\ pc # "wait") => (pc = "stage" /\ staging' = "ok")
        /\ asked' # asked => asked = 0

\* C16: in Run a commit is created at most once and only after, in this order,
\* staging succeeded, all four fetches succeeded, the diff was non-empty, the
\* client returned a message without error and the user confirmed; a client
\* error ends Run with an error, without a second call and without a commit;
\* a declined confirmation ends Run with "commit cancelled" and no commit.
C16_CommitOnlyAfterConfirm == []C16_State /\ [][C16_Step]_vars

C16_Witness ==
    /\ op = "cli"
    /\ pc = "done"
    /\ proceed = "yes"
    /\ asked = 1
    /\ commits = 1
    /\ smart.excludedPaths # <<>>

\* C17: generate_commit_message stages the changes before it reviews them: on
\* every invocation git add has run before the status, diff-stat, diff and
\* history fetches are issued.
C17_Original ==
    (op = "gen" /\ finished # {}) => staging = "ok"

\* C18: EnsureValid returns the given token unchanged, without a request to the
\* token endpoint and without a write of the token file, when the token is
\* valid (the clock is before ExpiresAt - 60); otherwise it sends one refresh
\* request and either returns an error and no token (the refresh or the save
\* failed) or returns the refreshed token after writing it, so that Load of the
\* token path yields the returned token.
C18_EnsureValid ==
    pc = "done" =>
        IF auth.now0 < auth.token.ExpiresAt - 60
        THEN /\ auth.returned = auth.token
             /\ auth.err = ""
             /\ auth.posts = 0
             /\ auth.writes = 0
             /\ auth.file = auth.file0
        ELSE /\ auth.posts = 1
             /\ (auth.answer.err # "" \/ auth.answer.status # 200
                    \/ auth.answer.body.kind # "json" \/ auth.disk # "ok") =>
                  (auth.err # "" /\ auth.returned = NilToken)
             /\ auth.err # "" => (auth.returned = NilToken /\ auth.file = auth.file0)
             /\ auth.err = "" =>
                  /\ auth.returned # NilToken
                  /\ auth.returned.AccessToken = auth.answer.body.doc["access_token"]
                  /\ auth.returned.ExpiresAt = auth.now + auth.returned.ExpiresIn
                  /\ auth.writes = 1
                  /\ Load(auth.file) = [token |-> auth.returned, err |-> ""]

C18_Witness ==
    /\ pc = "done"
    /\ auth.token.ExpiresAt = 1061
    /\ auth.now0 = 1001
    /\ auth.now = 1002
    /\ auth.err = ""
    /\ auth.file0.kind = "json"
    /\ auth.file # auth.file0
    /\ auth.returned.RefreshToken = Str("")
    /\ Load(auth.file).token = auth.returned

\* C19: create_commit stages all changes first; with a non-empty message it
\* commits with exactly that message and does no token load, no collection and
\* no call of the language-model client; without one it generates the message;
\* the result has success=true with the message used if and only if the commit
\* was created, and on every failure success=false with a non-empty error text.
C19_Original ==
    op = "create" =>
        /\ pc = "stage" =>
             (auth.loads = 0 /\ finished = {} /\ asked = 0 /\ commits = 0)
        /\ pc # "stage" => staging # "none"
        /\ message = "given" =>
             (auth.loads = 0 /\ finished = {} /\ asked = 0)
        /\ commits = 1 => message \in {"given", "generated"}
        /\ (commits = 1 /\ message = "generated") => asked = 1
        /\ pc = "done" =>
             /\ result.returned = "output"
             /\ result.success <=> commits = 1
             /\ result.success => result.message = message
             /\ ~result.success => result.text # ""

\* C20: files are attempted in ascending churn order: the sequence in which
\* the files are tested against the budget is a permutation of the input in
\* which the churn of each file is at most that of the next one.
C20_AscendingChurn ==
    Selected =>
        /\ Len(smart.sorted) = Len(fileStats)
        /\ \A i \in 1..Len(fileStats) :
              \E j \in 1..Len(smart.sorted) : smart.sorted[j] = fileStats[i]
        /\ \A i \in 1..Len(smart.sorted) - 1 :
              smart.sorted[i].Added + smart.sorted[i].Removed
                  <= smart.sorted[i + 1].Added + smart.sorted[i + 1].Removed
        /\ Len(smart.running) = Len(smart.sorted)
        /\ SelectSeq(PathsOf(smart.sorted), LAMBDA q : q \in Range(smart.selectedPaths))
             = smart.selectedPaths
        /\ SelectSeq(PathsOf(smart.sorted), LAMBDA q : q \in Range(smart.excludedPaths))
             = smart.excludedPaths
        /\ Range(smart.selectedPaths) \cup Range(smart.excludedPaths)
             = Range(PathsOf(smart.sorted))

C20_Witness ==
    /\ Selected
    /\ op = "gen"
    /\ Len(fileStats) = 3
    /\ Churn(fileStats[1]) > Churn(fileStats[2])
    /\ Churn(fileStats[2]) > Churn(fileStats[3])
    /\ smart.sorted[1] = fileStats[3]
    /\ smart.sorted[3] = fileStats[1]
    /\ Len(smart.selectedPaths) = 2

\* the text holds the literal "Changed Files Summary:", written by
\* buildSmartDiff or come from git
HoldsHeader(t) ==
    \E i \in 1..Len(t) : t[i].k = "hdr" \/ (t[i].k = "blob" /\ t[i].hdr)

\* C21 (as claimed): the selected-files caveat is appended to the diff block of
\* the prompt if and only if the diff text used contains the summary header.
C21_Original ==
    asked > 0 => (prompt.contextNote <=> HoldsHeader(prompt.diff))

\* C21 (amended): the caveat is appended if and only if the changes collection
\* is non-empty and the diff text used contains the summary header; with no
\* file statistics it is not appended, whatever the diff text holds.
C21_CaveatIffHeader ==
    asked > 0 =>
        /\ prompt.diff = smart.text
        /\ prompt.contextNote <=> (fileStats # <<>> /\ HoldsHeader(prompt.diff))
        /\ PromptLen(prompt) - PromptLen([prompt EXCEPT !.contextNote = FALSE])
             = IF fileStats # <<>> /\ HoldsHeader(prompt.diff) THEN 115 ELSE 0

C21_Witness ==
    /\ asked > 0
    /\ op = "gen"
    /\ prompt.contextNote
    /\ smart.summary # <<>>
    /\ smart.excludedPaths # <<>>

\* the error message e names the fetch of goroutine t
NamesFetch(e, t) ==
    \/ t = "status" /\ e = "git status failed"
    \/ t = "diffstat" /\ e = "git diff stat failed"
    \/ t = "diff" /\ e = "git diff failed"
    \/ t = "log" /\ e = "git log failed"

\* the goroutines whose fetch returned an error
FailedTasks == {t \in Tasks : wg.failed[t]}

\* C22: when one or more of the four fetches fail, the error returned is the
\* first one of the shared error list; it is the error of a goroutine whose
\* fetch failed and it names that fetch, whichever goroutine appended first.
C22_FirstRecordedError ==
    (pc = "done" /\ FailedTasks # {}) =>
        /\ errs # <<>>
        /\ result = CollectionFailure(op, errs[1])
        /\ \E t \in FailedTasks : NamesFetch(errs[1], t)
        /\ \A i \in 1..Len(errs) : \E t \in FailedTasks : NamesFetch(errs[i], t)

C22_Witness ==
    /\ pc = "done"
    /\ FailedTasks = {"status", "log"}
    /\ errs = <<"git log failed", "git status failed">>
    /\ result.text = "failed to gather git info: git log failed"

\* C23: no two goroutines write the same result variable, every append to
\* the shared error list is made by the holder of the mutex and none is lost
\* (after the fan-in the list has one error per failed fetch), and the
\* coordinator reads only after all four goroutines have finished.
C23_DisciplinedSharing ==
    /\ wg.writers["status"] \subseteq {"status"}
    /\ wg.writers["fileStats"] \subseteq {"diffstat"}
    /\ wg.writers["diff"] \subseteq {"diff"}
    /\ wg.writers["log"] \subseteq {"log"}
    /\ \A t \in Tasks : wg.at[t] \in {"read", "append", "unlock"} => mu = t
    /\ \A t \in Tasks : wg.at[t] \in {"defer", "exited"} /\ wg.failed[t] =>
           \E i \in 1..Len(errs) : NamesFetch(errs[i], t)
    /\ pc # "wait" =>
           /\ Len(errs) = Cardinality(FailedTasks)
           /\ \A t \in Tasks : wg.at[t] = "exited"
           /\ \A t \in Tasks \ FailedTasks : wg.writers[ResultVar(t)] = {t}

C23_Witness ==
    /\ pc = "done"
    /\ Len(errs) = 3
    /\ FailedTasks = {"status", "diffstat", "diff"}
    /\ wg.writers["log"] = {"log"}
    /\ mu = "free"

\* every goroutine calls wg.Done once, when it returns, and not before
DoneOnce ==
    \A t \in Tasks :
        /\ wg.dones[t] = IF wg.at[t] = "exited" THEN 1 ELSE 0
        /\ wg.count = 4 - Cardinality({u \in Tasks : wg.at[u] = "exited"})

\* the coordinator is past wg.Wait() only when all four have returned, with
\* all four results or with an error
WaitedForAll ==
    pc # "wait" =>
        /\ \A t \in Tasks : wg.at[t] = "exited"
        /\ finished = Tasks
        /\ FailedTasks = {} => wg.writers = [v \in ResultVars |-> {t \in Tasks : ResultVar(t) = v}]
        /\ FailedTasks # {} => pc = "done" /\ ~result.success

\* C24: wg.Wait returns only after all four goroutines have completed, each
\* calls wg.Done exactly once on its success path and on its error path, and
\* when every fetch returns the collection ends, with a snapshot or an error.
C24_FanInTerminates ==
    /\ [](DoneOnce /\ WaitedForAll)
    /\ <>(pc # "wait")

C24_Witness ==
    /\ pc = "collected"
    /\ FailedTasks = {}
    /\ wg.count = 0
    /\ \A t \in Tasks : wg.dones[t] = 1

\* Run before its collection: nothing fetched, nothing built
NothingFetched ==
    /\ finished = {}
    /\ errs = <<>>
    /\ status = <<>> /\ diff = <<>> /\ log = <<>> /\ fileStats = <<>>
    /\ smart = NoSmart /\ prompt = NoPrompt /\ asked = 0 /\ commits = 0

C25_State ==
    op = "cli" =>
        /\ staging = "none" => pc = "stage" /\ NothingFetched
        /\ staging = "failed" =>
              /\ pc = "done"
              /\ NothingFetched
              /\ result = [returned |-> "error", success |-> FALSE,
                           text |-> "failed to stage changes"]
        /\ finished # {} => staging = "ok"

\* a step of one of the four fetch goroutines
C25_Step ==
    (op = "cli" /\ finished' # finished) =>
        /\ staging' = staging
        /\ commits' = commits
        /\ repo' = repo
        /\ message' = message

\* C25: in Run, git add . completes before any of the four fetches starts;
\* if it fails Run returns an error and issues no fetch; the fetch tasks only
\* read the repository: none of them stages or commits.
C25_StageBeforeFetch ==
    []C25_State /\ [][C25_Step]_vars

C25_Witness ==
    /\ op = "cli"
    /\ staging = "ok"
    /\ finished = Tasks
    /\ pc = "collected"
    /\ commits = 0

\* the orderings of a list of files with distinct paths
Orderings(stats) ==
    {t \in [1..Len(stats) -> Range(stats)] : Range(t) = Range(stats)}

\* the copy of buildSmartDiff that ran, on another list of files
CopyOn(stats, b) ==
    IF op = "cli"
    THEN buildSmartDiff(stats, diff, b, [err |-> TRUE, text |-> <<>>])
    ELSE mcpBuildSmartDiff(stats, diff, b, [err |-> TRUE, text |-> <<>>])

\* C26: the outcome of smart selection does not depend on the insertion order
\* of changes: for any two orderings of the same collection of files and the
\* same budget, the set of selected paths and the set of excluded paths are
\* identical.
C26_Original ==
    Selected =>
        \A t \in Orderings(fileStats) :
            /\ Range(CopyOn(t, budget).selectedPaths) = Range(smart.selectedPaths)
            /\ Range(CopyOn(t, budget).excludedPaths) = Range(smart.excludedPaths)

\* C27: for every list of file statistics, full diff and budget, the MCP
\* server's buildSmartDiff and the CLI's buildSmartDiff give the same summary
\* block, the same list of selected paths and the same list of excluded paths.
C27_Original ==
    Selected =>
        LET fetch == [err |-> TRUE, text |-> <<>>]
            cli   == buildSmartDiff(fileStats, diff, budget, fetch)
            mcp   == mcpBuildSmartDiff(fileStats, diff, budget, fetch)
        IN  /\ cli.summary = mcp.summary
            /\ cli.selectedPaths = mcp.selectedPaths
            /\ cli.excludedPaths = mcp.excludedPaths

\* the files of a list whose path is in a list of paths
FilesIn(stats, paths) == SelectSeq(stats, LAMBDA f : f.Path \in Range(paths))

\* a list without repeated elements
NoRepeat(s) == \A i, j \in 1..Len(s) : i # j => s[i] # s[j]

\* what the summary block and the detailed diffs of the selected files are
\* estimated to take
SelectedEstimate ==
    LET chosen == FilesIn(fileStats, smart.selectedPaths)
    IN  TextLen(SummaryBlock(fileStats)) + 5 * SumChurn(chosen, Len(chosen))

\* C28: after the walk every file of a non-empty changes list is in exactly
\* one of the selected list and the excluded list, so their lengths add up to
\* the number of files; and when a file is selected, the summary size plus
\* 5 times the churn of the selected files is at most the budget.
C28_Partition ==
    Selected =>
        /\ Len(smart.selectedPaths) + Len(smart.excludedPaths) = Len(fileStats)
        /\ NoRepeat(smart.selectedPaths) /\ NoRepeat(smart.excludedPaths)
        /\ Range(smart.selectedPaths) \cap Range(smart.excludedPaths) = {}
        /\ Range(smart.selectedPaths) \cup Range(smart.excludedPaths)
             = Range(PathsOf(fileStats))
        /\ smart.selectedPaths # <<>> => SelectedEstimate <= budget

C28_Witness ==
    /\ Selected
    /\ Len(fileStats) = 2
    /\ Len(smart.selectedPaths) = 1
    /\ Len(smart.excludedPaths) = 1
    /\ SelectedEstimate = budget
    /\ Churn(FilesIn(fileStats, smart.selectedPaths)[1]) > 0

RECURSIVE StopAtOverflow(_, _, _, _)
\* a scan of the ranked files that ends at the first file over the budget:
\* the number of files it selects
StopAtOverflow(sorted, i, b, used) ==
    IF i > Len(sorted) \/ used + 5 * Churn(sorted[i]) > b
    THEN i - 1
    ELSE StopAtOverflow(sorted, i + 1, b, used + 5 * Churn(sorted[i]))

\* C29: once one file is excluded every file after it in the walk is excluded
\* too: the selected list is a prefix of the ranked list, and the scan that
\* goes on after an overflow selects the same files as a scan that stops at
\* the first overflow.
C29_SelectedPrefix ==
    Selected =>
        LET ranked == PathsOf(smart.sorted)
            n      == Len(smart.selectedPaths)
        IN  /\ n <= Len(ranked)
            /\ smart.selectedPaths = SubSeq(ranked, 1, n)
            /\ smart.excludedPaths = SubSeq(ranked, n + 1, Len(ranked))
            /\ n = StopAtOverflow(smart.sorted, 1, budget, TextLen(SummaryBlock(fileStats)))

C29_Witness ==
    /\ Selected
    /\ op = "cli"
    /\ Len(fileStats) = 3
    /\ Churn(fileStats[1]) = 2 /\ Churn(fileStats[2]) = 0 /\ Churn(fileStats[3]) = 1
    /\ smart.selectedPaths = <<fileStats[2].Path>>
    /\ smart.excludedPaths = <<fileStats[3].Path, fileStats[1].Path>>

\* C30: for every state of the stored token file, ensureValidToken finishes
\* by returning an access token or an error; with the file missing it returns
\* an error and does not use the absent token.
C30_Original ==
    (op \in {"gen", "create"} /\ auth.loads > 0) =>
        \/ pc # "done"
        \/ asked > 0
        \/ finished = Tasks
        \/ /\ result.returned = (IF op = "create" THEN "output" ELSE "error")
           /\ ~result.success
           /\ result.text \in {"failed to load token", "failed to ensure valid token"}

====
